---------------------------- MODULE Spec2Model ----------------------------
(***************************************************************************)
(* muzak: the cpal output backend (src/src/devices/builtin/cpal.rs) and    *)
(* the Last.fm scrobbler.                                                  *)
(*                                                                         *)
(* The model covers the device side (format queries, open_device) and the  *)
(* streaming transport of one opened stream: the producer thread calling   *)
(* submit_frame / needs_input / close_stream / get_current_format, and the *)
(* backend's real-time output callback draining the ring buffer.           *)
(*                                                                         *)
(* The ring buffer is the `rb` crate's SpscRb: a Vec of size+1 slots       *)
(* behind a Mutex, two cursors (read_pos, write_pos) and the condition     *)
(* variable slots_free.  Its operations are modelled where cpal.rs calls   *)
(* them (SpscRb::new, Producer::write_blocking, Consumer::read).           *)
(*                                                                         *)
(* Frames enter the model as the per-channel arrays submit_frame hands to  *)
(* interleave, that is after T::inner (media::playback, not part of the    *)
(* sources at hand) has produced the native-typed samples.                 *)
(*                                                                         *)
(* The Last.fm scrobbler (src/src/services/mmb/lastfm.rs) is modelled as   *)
(* the LastFM struct and the playback events it handles one at a time.     *)
(***************************************************************************)
EXTENDS Integers, Sequences, FiniteSets, TLC

\* ------------------------------------------------------------------ bounds
\* Most channels in a submitted PlaybackFrame.
MaxChannels == 2
\* Longest per-channel array of a submitted PlaybackFrame.
MaxLen == 3
\* Most samples submitted over the life of the stream.
MaxTotal == 6
\* Largest sample count the hardware requests in one callback.
MaxReq == 2
\* Most native configurations a device reports as supported.
MaxConfigs == 2
\* Most sample-format conversions followed.
MaxConversions == 2
\* Most devices the host enumerates.
MaxDevices == 2
\* Largest playback position (seconds) reported to the scrobbler.
MaxPosition == 16
\* Most seconds forward seeks skip within one track.
MaxSkipped == 2
\* Most clicks on the Last.fm button.
MaxClicks == 4

\* The MMBS events emitted to one broadcast service.
MaxEvents == 4

\* The commands sent to the data thread.
MaxCommands == 2

\* The paths of one ReadQueueMetadata command.
MaxPaths == 2

\* ----------------------------------------------------------- value spaces
\* devices::format::SampleFormat as matched in open_device.
CanonicalFormats ==
    {"Signed8", "Signed16", "Signed32", "Unsigned8", "Unsigned16",
     "Unsigned32", "Float32", "Float64"}

SampleFormats == CanonicalFormats \cup {"Unsupported"}

\* cpal::SampleFormat: the eight matched tags and the two 64-bit integers.
CpalSampleFormats ==
    {"I8", "I16", "I32", "U8", "U16", "U32", "F32", "F64", "I64", "U64"}

\* Backend identity tags: this backend's and a foreign one.
Providers == {"cpal", "other"}

\* Sample rates (Hz): 4 is below the 5 Hz at which 200 ms holds one sample.
SampleRates == {4, 5, 10}

Count(v) == [kind |-> "Count", count |-> v]

\* A ChannelSpec that is not Count(_): the `_` arm of create_stream.
NotCount == [kind |-> "Other", count |-> 0]

ChannelSpecs == {Count(1), Count(2), NotCount}

BufferSizeUnknown == [kind |-> "Unknown", start |-> 0, end |-> 0]

BufferSizeRange(min, max) == [kind |-> "Range", start |-> min, end |-> max]

BufferSizes == {BufferSizeUnknown, BufferSizeRange(1, 2)}

\* cpal::SupportedBufferSize as the device reports it.
NativeBufferSizes ==
    {[kind |-> "Unknown", min |-> 0, max |-> 0],
     [kind |-> "Range", min |-> 1, max |-> 2]}

FormatInfo(p, t, r, b, c) ==
    [originating_provider |-> p, sample_type |-> t, sample_rate |-> r,
     buffer_size |-> b, channels |-> c]

\* Every FormatInfo a caller can hand to open_device.
FormatInfos ==
    {FormatInfo(p, t, r, b, c) :
        p \in Providers, t \in SampleFormats, r \in SampleRates,
        b \in {BufferSizeUnknown}, c \in ChannelSpecs}

\* The formats the transport specification opens streams with.
StreamFormats ==
    {f \in FormatInfos : f.sample_type \in {"Signed16", "Unsupported"}}

\* A native default configuration (cpal::SupportedStreamConfig).
NativeDefaults ==
    [sample_format : CpalSampleFormats, sample_rate : {10},
     buffer_size : NativeBufferSizes, channels : {2}]

\* A native supported range with any of the ten native encodings.
NativeRangesAll ==
    [sample_format : CpalSampleFormats, min_sample_rate : {5},
     max_sample_rate : {10}, buffer_size : {[kind |-> "Unknown", min |-> 0, max |-> 0]},
     channels : {2}]

\* A native supported range (cpal::SupportedStreamConfigRange).
NativeRanges ==
    [sample_format : {"I16", "F64", "I64", "U64"}, min_sample_rate : {5},
     max_sample_rate : {10}, buffer_size : {[kind |-> "Unknown", min |-> 0, max |-> 0]},
     channels : {2}]

\* The content of the callback's data slice before the callback writes it:
\* the backend hands over a slice whose content it does not specify.
Stale == -1

SliceFills == {0, Stale}

NoStream == [exists |-> FALSE]

NoOpen ==
    [called |-> FALSE, own |-> FALSE, result |-> "None",
     rb_allocated |-> FALSE, stream_built |-> FALSE]

NoCall == [op |-> "none"]

\* ------------------------------------------------------------------ state
VARIABLES
    returned,     \* what the last format query of the device returned
    lastOpen,     \* the last open_device call: its format and outcome
    stream,       \* the CpalStream: its format and native configuration
    size,         \* SpscRb: the capacity given to SpscRb::new
    buf,          \* SpscRb: the slots, 0 .. size
    read_pos,     \* SpscRb: the consumer's cursor
    write_pos,    \* SpscRb: the producer's cursor
    mutex,        \* SpscRb: who holds the Mutex around buf
    notified,     \* SpscRb: slots_free was notified while the producer waits
    ppc,          \* the producer thread's position
    frame,        \* submit_frame: the per-channel arrays
    interleaved,  \* submit_frame: the interleaved samples
    slice,        \* submit_frame: the part not yet written
    written,      \* submit_frame: the sum of the counts write_blocking returned
    cpc,          \* the callback's position
    cb,           \* the callback: request size, samples buffered, count to read
    data,         \* the callback's data slice as the hardware receives it
    submitted,    \* history: the interleaved samples of every frame submitted
    consumed,     \* history: the samples the callbacks read from the buffer
    closed,       \* history: close_stream has returned; a callback read after it
    lastCall,     \* the last OutputStream call that returned, and its result
    conversions,  \* the sample-format conversions made so far
    host,         \* CpalProvider: the host the provider is bound to
    lastProv,     \* the last DeviceProvider call: its inputs and result
    lastfm,       \* the LastFM scrobbler: the fields of the struct
    overflow,     \* whether the build has shown that it wraps on overflow
    scrobbles,    \* history: how the scrobble requests since new_track ended
    lastEvent,    \* the last event the scrobbler handled, and what it did
    delivered,    \* history: what has been delivered since the last new_track
    app,          \* build_models has run; the API key and secret are compiled in
    lastfmState,  \* Models::lastfm: the LastFMState
    mmbsList,     \* Models::mmbs: the MMBSList, its entries in insertion order
    tasks,        \* the get_token and confirm tasks spawned and not finished,
                  \* with the clicks, tokens and session events counted
    run_queue,    \* the foreground executor: the tasks scheduled, oldest first
    mmbs_tasks,   \* the task spawned for each MMBS event: its position
    mmbs_mutex,   \* the service's Mutex: its holder and the listeners waiting
    handled,      \* history: the events in the order their handlers started,
                  \* and whether two handlers were ever inside at once
    commands_rx,  \* the command channel: the commands sent and not yet received
    events_tx,    \* the event channel: the events the data thread has sent
    channel_ends,     \* whether the command sender and the event receiver exist
    image_cache,  \* DataThread::image_cache: the keys of the thumbnails cached
    refs,         \* the references to each thumbnail held outside the cache
    thread,       \* the data thread: running, ended or panicked
    data_log      \* history: the commands sent, the commands handled and the
                  \* last read_metadata_for_queue call

deviceVars == <<returned, lastOpen>>

rbVars == <<size, buf, read_pos, write_pos, mutex, notified>>

producerVars == <<ppc, frame, interleaved, slice, written>>

consumerVars == <<cpc, cb, data>>

historyVars == <<submitted, consumed, closed>>

providerVars == <<host, lastProv>>

lastfmVars == <<lastfm, overflow, scrobbles, lastEvent, delivered>>

signinVars == <<app, lastfmState, mmbsList, tasks>>

\* The state of the user interface and its threads.
dispatchVars == <<run_queue, mmbs_tasks, mmbs_mutex, handled>>

dataVars ==
    <<commands_rx, events_tx, channel_ends, image_cache, refs, thread, data_log>>

appVars == <<signinVars, dispatchVars, dataVars>>

\* What the device and stream operations leave alone.
sideVars == <<conversions, providerVars, lastfmVars, appVars>>

\* What the provider and the format mapping leave alone.
streamVars ==
    <<returned, lastOpen, stream, size, buf, read_pos, write_pos, mutex,
      notified, ppc, frame, interleaved, slice, written, cpc, cb, data,
      submitted, consumed, closed, lastCall>>

vars ==
    <<returned, lastOpen, stream, size, buf, read_pos, write_pos, mutex,
      notified, ppc, frame, interleaved, slice, written, cpc, cb, data,
      submitted, consumed, closed, lastCall, conversions, host, lastProv,
      lastfm, overflow, scrobbles, lastEvent, delivered,
      app, lastfmState, mmbsList, tasks,
      run_queue, mmbs_tasks, mmbs_mutex, handled,
      commands_rx, events_tx, channel_ends, image_cache, refs, thread, data_log>>

\* The audio backend and the scrobbler: what the user interface leaves alone.
backendVars == <<streamVars, conversions, providerVars, lastfmVars>>

\* What the sign-in leaves alone.
besideSignIn == <<backendVars, dispatchVars, dataVars>>

\* What the dispatch of the MMBS events leaves alone.
besideDispatch == <<backendVars, signinVars, dataVars>>

\* What the data thread and its channel_ends leave alone.
besideData == <<backendVars, signinVars, dispatchVars>>

\* ------------------------------------------------------- format mapping
format_from_cpal(format) ==
    CASE format = "I8" -> "Signed8"
      [] format = "I16" -> "Signed16"
      [] format = "I32" -> "Signed32"
      [] format = "U8" -> "Unsigned8"
      [] format = "U16" -> "Unsigned16"
      [] format = "U32" -> "Unsigned32"
      [] format = "F32" -> "Float32"
      [] format = "F64" -> "Float64"
      [] OTHER -> "Unsupported"

\* cpal_from_format with the Unsigned16 arm copied from Signed16.
cpal_from_format_copied_arm(format) ==
    CASE format = "Signed8" -> "I8"
      [] format = "Signed16" -> "I16"
      [] format = "Signed32" -> "I32"
      [] format = "Unsigned8" -> "U8"
      [] format = "Unsigned16" -> "I16"
      [] format = "Unsigned32" -> "U32"
      [] format = "Float32" -> "F32"
      [] format = "Float64" -> "F64"
      [] OTHER -> "U16"

cpal_from_format(format) ==
    CASE format = "Signed8" -> "I8"
      [] format = "Signed16" -> "I16"
      [] format = "Signed32" -> "I32"
      [] format = "Unsigned8" -> "U8"
      [] format = "Unsigned16" -> "U16"
      [] format = "Unsigned32" -> "U32"
      [] format = "Float32" -> "F32"
      [] format = "Float64" -> "F64"
      [] OTHER -> "U16"

Err == [ok |-> FALSE]

\* cpal_config_from_info taking the channel count from the FormatInfo.
cpal_config_from_info_format_channels(format) ==
    IF format.originating_provider # "cpal"
    THEN Err
    ELSE [ok |-> TRUE, channels |-> format.channels.count,
          sample_rate |-> format.sample_rate, buffer_size |-> "Default"]

cpal_config_from_info(format) ==
    IF format.originating_provider # "cpal"
    THEN Err
    ELSE [ok |-> TRUE, channels |-> 2, sample_rate |-> format.sample_rate,
          buffer_size |-> "Default"]

\* ------------------------------------------------------------ interleave
RECURSIVE interleave_loop_planar(_, _, _)
\* The loop with the two indices swapped: channel after channel.
interleave_loop_planar(samples, i, result) ==
    LET per_channel == Len(samples[1]) IN
    IF i >= Len(samples) * Len(samples[1])
    THEN result
    ELSE interleave_loop_planar(samples, i + 1,
             Append(result,
                    samples[(i \div per_channel) + 1][(i % per_channel) + 1]))

RECURSIVE interleave_loop(_, _, _)
\* The for loop of interleave: pushes samples[i % length][i / length] for
\* i in i .. samples.len() * samples[0].len() - 1 (sequences count from 1).
interleave_loop(samples, i, result) ==
    LET length == Len(samples) IN
    IF i >= Len(samples) * Len(samples[1])
    THEN result
    ELSE interleave_loop(samples, i + 1,
             Append(result, samples[(i % length) + 1][(i \div length) + 1]))

\* interleave giving one sample of silence for an empty frame.
interleave_pads_empty(samples) ==
    IF samples = <<>> \/ samples[1] = <<>>
    THEN <<0>>
    ELSE interleave_loop(samples, 0, <<>>)

interleave(samples) ==
    IF samples = <<>> THEN <<>> ELSE interleave_loop(samples, 0, <<>>)

\* ------------------------------------------------------ SpscRb (rb crate)
\* Inspector::slots_free over the two cursors; the Vec holds sz + 1 slots.
slots_free(re_pos, wr_pos, sz) ==
    IF wr_pos < re_pos THEN re_pos - wr_pos - 1 ELSE sz - wr_pos + re_pos

is_full == slots_free(read_pos, write_pos, size) = 0

is_empty == slots_free(read_pos, write_pos, size) = size

count == size - slots_free(read_pos, write_pos, size)

Min(a, b) == IF a < b THEN a ELSE b

\* copy_in without the wrap-around branch: samples past the end are lost.
copy_in_no_wrap(b, wr_pos, src, cnt) ==
    [i \in 0..size |->
        IF wr_pos <= i /\ i < wr_pos + cnt THEN src[i - wr_pos + 1] ELSE b[i]]

\* The slots after copying src[..cnt] in at wr_pos, wrapping at the end.
copy_in(b, wr_pos, src, cnt) ==
    LET buf_len == size + 1 IN
    IF wr_pos + cnt < buf_len
    THEN [i \in 0..size |->
             IF wr_pos <= i /\ i < wr_pos + cnt THEN src[i - wr_pos + 1] ELSE b[i]]
    ELSE LET d == buf_len - wr_pos IN
         [i \in 0..size |->
             IF wr_pos <= i THEN src[i - wr_pos + 1]
             ELSE IF i < cnt - d THEN src[d + i + 1]
             ELSE b[i]]

\* The cnt samples copied out from re_pos, wrapping at the end.
copy_out(b, re_pos, cnt) ==
    LET buf_len == size + 1 IN
    IF re_pos + cnt < buf_len
    THEN [j \in 1..cnt |-> b[re_pos + j - 1]]
    ELSE LET d == buf_len - re_pos IN
         [j \in 1..cnt |-> IF j <= d THEN b[re_pos + j - 1] ELSE b[j - d - 1]]

\* The cursor after advancing it by cnt.
advance(pos, cnt) == (pos + cnt) % (size + 1)

\* ------------------------------------------------------------ CpalDevice
\* The ring buffer capacity create_stream computes.
buffer_size_of(config, channels) ==
    ((200 * config.sample_rate) \div 1000) * channels

\* create_stream::<T>(format); built says whether the device's
\* build_output_stream succeeds.
create_stream(format, built) ==
    LET config == cpal_config_from_info(format) IN
    IF ~config.ok
    THEN [result |-> "InvalidConfigProvider", rb_allocated |-> FALSE,
          stream_built |-> FALSE, buffer_size |-> 0, config |-> Err]
    ELSE IF format.channels.kind # "Count"
    THEN [result |-> "Panic", rb_allocated |-> FALSE,
          stream_built |-> FALSE, buffer_size |-> 0, config |-> config]
    ELSE LET buffer_size == buffer_size_of(config, format.channels.count) IN
         IF built
         THEN [result |-> "Ok", rb_allocated |-> TRUE, stream_built |-> TRUE,
               buffer_size |-> buffer_size, config |-> config]
         ELSE [result |-> "Unknown", rb_allocated |-> TRUE,
               stream_built |-> FALSE, buffer_size |-> buffer_size,
               config |-> config]

\* open_device matching on the sample type before it compares the tag.
open_device_type_first(format, built) ==
    IF format.sample_type \in CanonicalFormats
    THEN create_stream(format, built)
    ELSE [result |-> "InvalidSampleFormat", rb_allocated |-> FALSE,
          stream_built |-> FALSE, buffer_size |-> 0, config |-> Err]

\* open_device without the Float64 arm: the encoding falls to the `_` arm.
open_device_missing_arm(format, built) ==
    IF format.originating_provider # "cpal"
    THEN [result |-> "InvalidConfigProvider", rb_allocated |-> FALSE,
          stream_built |-> FALSE, buffer_size |-> 0, config |-> Err]
    ELSE IF format.sample_type \in CanonicalFormats \ {"Float64"}
    THEN create_stream(format, built)
    ELSE [result |-> "InvalidSampleFormat", rb_allocated |-> FALSE,
          stream_built |-> FALSE, buffer_size |-> 0, config |-> Err]

open_device(format, built) ==
    IF format.originating_provider # "cpal"
    THEN [result |-> "InvalidConfigProvider", rb_allocated |-> FALSE,
          stream_built |-> FALSE, buffer_size |-> 0, config |-> Err]
    ELSE IF format.sample_type \in CanonicalFormats
    THEN create_stream(format, built)
    ELSE [result |-> "InvalidSampleFormat", rb_allocated |-> FALSE,
          stream_built |-> FALSE, buffer_size |-> 0, config |-> Err]

\* The buffer-size policy both queries derive from the native one.
buffer_size_from_cpal(b) ==
    IF b.kind = "Range" THEN BufferSizeRange(b.min, b.max) ELSE BufferSizeUnknown

supported_from_cpal(c) ==
    [originating_provider |-> "cpal",
     sample_type |-> format_from_cpal(c.sample_format),
     sample_rates |-> [start |-> c.min_sample_rate, end |-> c.max_sample_rate],
     buffer_size |-> buffer_size_from_cpal(c.buffer_size),
     channels |-> Count(c.channels)]

\* The filter with the U64 test left out.
keep_config_signed_only(c) == c.sample_format # "I64"

keep_config(c) == c.sample_format # "I64" /\ c.sample_format # "U64"

RECURSIVE map_supported(_)
map_supported(configs) ==
    IF configs = <<>> THEN <<>>
    ELSE <<supported_from_cpal(Head(configs))>> \o map_supported(Tail(configs))

\* get_supported_formats over the configurations the device reports.
get_supported_formats(configs) ==
    map_supported(SelectSeq(configs, keep_config))

\* get_default_format tagging its result with another backend's identity.
get_default_format_foreign_tag(format) ==
    FormatInfo("other", format_from_cpal(format.sample_format),
               format.sample_rate, buffer_size_from_cpal(format.buffer_size),
               Count(format.channels))

\* get_default_format over the default configuration the device reports.
get_default_format(format) ==
    FormatInfo("cpal", format_from_cpal(format.sample_format),
               format.sample_rate, buffer_size_from_cpal(format.buffer_size),
               Count(format.channels))

\* ----------------------------------------------------------- CpalStream
\* needs_input() answering whether the ring buffer has room.
needs_input_when_room == slots_free(read_pos, write_pos, size) # 0

\* needs_input(): the constant the method returns.
needs_input == TRUE

\* get_current_format() reporting the channel count of the native
\* configuration in place of the one the stream was opened with.
get_current_format_native ==
    [stream.format EXCEPT !.channels = Count(stream.config.channels)]

\* get_current_format(): the format field.
get_current_format == stream.format

\* ---------------------------------------------------------------- LastFM
\* u64 arithmetic wraps at 2^64 where the build has no overflow checks.  The
\* model wraps at 2^10, which lies above every position and every half
\* duration it enumerates, so that a wrapped value compares with them as the
\* 64-bit one does.
WordModulus == 1024

\* The least duration (seconds) of a track that is scrobbled.
MinScrobbleDuration == 30

\* The listening time (seconds) past which a track of any length is scrobbled.
ScrobbleAfter == 240

NoTimestamp == [some |-> FALSE]

NoMetadata == [some |-> FALSE, artist |-> FALSE, name |-> FALSE]

\* A Metadata as far as the scrobbler looks at it: whether the artist and the
\* track name are present.
Metadatas == [some : {TRUE}, artist : BOOLEAN, name : BOOLEAN]

\* Track durations (seconds): below and at the least scrobbled duration, and
\* one whose half lies above ScrobbleAfter.
Durations == {29, 30, 2000}

\* How far a position event lies from the position before it: a seek back,
\* no progress, a second of playback, a seek forward.
PositionSteps == {-1, 0, 1, 2}

\* Neither metadata nor a duration has arrived for the current track.
NothingDelivered == [metadata |-> FALSE, duration |-> FALSE]

NoEvent == [op |-> "none", position |-> 0, request |-> "none", panic |-> "none"]

\* LastFM::new with has_scrobbled: false.
new_unscrobbled ==
    [start_timestamp |-> NoTimestamp, accumulated_time |-> 0,
     metadata |-> NoMetadata, duration |-> 0, last_postion |-> 0,
     has_scrobbled |-> FALSE]

\* LastFM::new(client).
new ==
    [start_timestamp |-> NoTimestamp, accumulated_time |-> 0,
     metadata |-> NoMetadata, duration |-> 0, last_postion |-> 0,
     has_scrobbled |-> TRUE]

\* new_track(_): the start timestamp is the time of the call.
new_track(self) ==
    [self EXCEPT !.start_timestamp = [some |-> TRUE],
                 !.accumulated_time = 0,
                 !.last_postion = 0,
                 !.has_scrobbled = FALSE]

\* Whether metadata_recieved sends a now-playing request for info.
now_playing_sent(info) == info.artist /\ info.name

\* metadata_recieved(info): the metadata is kept whatever the request did.
metadata_recieved(self, info) == [self EXCEPT !.metadata = info]

\* duration_changed(duration).
duration_changed(self, duration) == [self EXCEPT !.duration = duration]

\* The first statement of position_changed:
\*   if position < last_postion + 2 { accumulated_time += position - last_postion }
\* A position behind last_postion makes the subtraction overflow: with
\* overflow checks the statement panics, without them the difference and then
\* the sum wrap.
accumulate(self, position, checks) ==
    LET sum == self.accumulated_time + position - self.last_postion
        overflows == position < self.last_postion \/ sum >= WordModulus
    IN IF ~(position < self.last_postion + 2)
       THEN [panic |-> FALSE, wrapped |-> FALSE, value |-> self.accumulated_time]
       ELSE IF ~overflows
       THEN [panic |-> FALSE, wrapped |-> FALSE, value |-> sum]
       ELSE IF checks
       THEN [panic |-> TRUE, wrapped |-> FALSE, value |-> self.accumulated_time]
       ELSE [panic |-> FALSE, wrapped |-> TRUE,
             value |-> (sum + WordModulus) % WordModulus]

\* The scrobble condition with the least duration lowered by one second.
should_scrobble_from_29(self) ==
    /\ self.duration >= MinScrobbleDuration - 1
    /\ \/ self.accumulated_time > self.duration \div 2
       \/ self.accumulated_time > ScrobbleAfter
    /\ ~self.has_scrobbled

\* The condition of the second statement of position_changed.
should_scrobble(self) ==
    /\ self.duration >= MinScrobbleDuration
    /\ \/ self.accumulated_time > self.duration \div 2
       \/ self.accumulated_time > ScrobbleAfter
    /\ ~self.has_scrobbled

\* The flag as position_changed leaves it when it goes on to the request,
\* here left as it was.
mark_scrobbled_never(self) == self

\* has_scrobbled = true, set before the request is sent.
mark_scrobbled(self) == [self EXCEPT !.has_scrobbled = TRUE]

\* position_changed(position): the struct afterwards, whether a scrobble
\* request was sent, and whether the handler panicked (in the arithmetic, or
\* in start_timestamp.unwrap() while the request is put together).
position_changed(self, position, checks) ==
    LET acc == accumulate(self, position, checks)
        moved == [self EXCEPT !.accumulated_time = acc.value,
                              !.last_postion = position]
    IN IF acc.panic
       THEN [self |-> self, request |-> FALSE, panic |-> "overflow",
             wrapped |-> FALSE]
       ELSE IF ~should_scrobble(moved)
       THEN [self |-> moved, request |-> FALSE, panic |-> "none",
             wrapped |-> acc.wrapped]
       ELSE IF ~(moved.metadata.some /\ moved.metadata.artist
                   /\ moved.metadata.name)
       THEN [self |-> moved, request |-> FALSE, panic |-> "none",
             wrapped |-> acc.wrapped]
       ELSE IF ~moved.start_timestamp.some
       THEN [self |-> mark_scrobbled(moved), request |-> FALSE,
             panic |-> "unwrap", wrapped |-> acc.wrapped]
       ELSE [self |-> mark_scrobbled(moved), request |-> TRUE,
             panic |-> "none", wrapped |-> acc.wrapped]

\* ------------------------------------------------- Last.fm sign-in (ui)
\* LastFMState: Disconnected, AwaitingFinalization(token), Connected(session).
\* Tokens are numbered from 1; the session got for token t is numbered t and
\* the session stored on disk 0.
Disconnected == [kind |-> "Disconnected", token |-> 0, session |-> 0]

AwaitingFinalization(token) ==
    [kind |-> "AwaitingFinalization", token |-> token, session |-> 0]

Connected(session) == [kind |-> "Connected", token |-> 0, session |-> session]

\* What build_models finds at data_dir/lastfm.json: no file, a file holding a
\* session, a file that does not parse.
StoredSessions == {"none", "valid", "unreadable"}

NoTasks ==
    [clicks |-> 0, get_token |-> 0, confirm |-> <<>>, next_token |-> 1,
     sessions |-> 0]

\* HashMap::insert written as a push: an entry is added whatever the key.
map_insert_push(list, key, value) ==
    Append(list, [key |-> key, value |-> value])

\* HashMap::insert(key, value) on the entries of the map: the entry with the
\* key gets the value, or a new entry is added.
map_insert(list, key, value) ==
    IF \E i \in 1..Len(list) : list[i].key = key
    THEN [i \in 1..Len(list) |->
             IF list[i].key = key THEN [key |-> key, value |-> value]
             ELSE list[i]]
    ELSE Append(list, [key |-> key, value |-> value])

\* create_last_fm_mmbs(cx, mmbs_list, session): with the API key and secret
\* compiled in, a LastFM service for the session goes in under "lastfm".
create_last_fm_mmbs(list, configured, session) ==
    IF configured THEN map_insert(list, "lastfm", session) ELSE list

\* ------------------------------------------------------------------ Init
\* ---------------------------------------------------------- data thread
\* Option<T>: None, or Some(v).
None == <<>>

Some(v) == <<v>>

\* The embedded images that decode, each named by the key hash_one gives it.
Images == {"i1", "i2"}

\* What read_image can give for a file: no image, one that does not decode,
\* or one of the images.
EmbeddedImages == {"none", "corrupt"} \cup Images

\* std::path::MAIN_SEPARATOR_STR, and paths as sequences of characters.
MAIN_SEPARATOR_STR == "/"

Paths == {<<"a">>, <<"d", "/", "a">>, <<"d", "/", "e", "/", "b">>}

ImageTypes == {"CurrentAlbumArt", "AlbumArt"}

ImageLayouts == {"RGB", "BGR"}

\* The encoded images a DecodeImage command can carry.
ImageDatas == {"valid", "corrupt"}

\* How far a file gets in read_metadata_for_queue: File::open fails, the
\* provider's open, start_playback or read_metadata fails, or all succeed.
Stages == {"missing", "open_err", "playback_err", "metadata_err", "ok"}

\* The file system and the media provider as the data thread finds them for
\* one path.
FileOutcomes ==
    {[stage |-> st, image |-> "none"] : st \in Stages \ {"ok"}}
        \cup {[stage |-> "ok", image |-> im] : im \in EmbeddedImages}

\* The sequences over S of at most n elements.
SeqsUpTo(S, n) == UNION {[1..k -> S] : k \in 0..n}

\* DataCommand
DecodeImage(image_data, image_type, layout) ==
    [kind |-> "DecodeImage", data |-> image_data, image_type |-> image_type,
     layout |-> layout, paths |-> <<>>]

ReadQueueMetadata(paths) ==
    [kind |-> "ReadQueueMetadata", data |-> "", image_type |-> "",
     layout |-> "", paths |-> paths]

EvictQueueCache ==
    [kind |-> "EvictQueueCache", data |-> "", image_type |-> "",
     layout |-> "", paths |-> <<>>]

\* DataEvent
ImageDecoded(image, image_type) ==
    [kind |-> "ImageDecoded", image_type |-> image_type, image |-> image,
     items |-> <<>>]

DecodeError(image_type) ==
    [kind |-> "DecodeError", image_type |-> image_type, image |-> "",
     items |-> <<>>]

MetadataRead(items) ==
    [kind |-> "MetadataRead", image_type |-> "", image |-> "", items |-> items]

\* Metadata::default(), and the metadata the provider reads from a file.
DefaultMetadata == [name |-> None, artist |-> None]

ReadMetadata == [name |-> Some(<<"t">>), artist |-> Some(<<"r">>)]

\* path.split(MAIN_SEPARATOR_STR).last(): what follows the last separator.
split_last(path) ==
    LET seps == {i \in 1..Len(path) : path[i] = MAIN_SEPARATOR_STR}
    IN  IF seps = {}
        THEN path
        ELSE SubSeq(path, (CHOOSE i \in seps : \A j \in seps : j <= i) + 1,
                    Len(path))

\* The mutant: the whole path is the name.
create_generic_queue_item_full_path(path) ==
    [metadata |-> [DefaultMetadata EXCEPT !.name = Some(path)],
     file_path |-> path, album_art |-> None]

create_generic_queue_item(path) ==
    [metadata |-> [DefaultMetadata EXCEPT !.name = Some(split_last(path))],
     file_path |-> path, album_art |-> None]

\* The mutant: Err is returned after the ImageDecoded event was sent.
decode_image_err_after_send(image_data, image_type, image_layout) ==
    [result |-> "Err",
     events |-> <<ImageDecoded(IF image_layout = "BGR" THEN "bgr" ELSE "rgb",
                               image_type)>>]

\* decode_image: Err before anything is sent when the data does not decode;
\* otherwise the thumbnail, its channel_ends swapped for BGR, is sent.
decode_image(image_data, image_type, image_layout) ==
    IF image_data = "corrupt"
    THEN [result |-> "Err", events |-> <<>>]
    ELSE [result |-> "Ok",
          events |-> <<ImageDecoded(IF image_layout = "BGR" THEN "bgr" ELSE "rgb",
                                    image_type)>>]

\* The album art of a file whose metadata was read: the cached thumbnail on
\* a hit; on a miss the image is decoded and cached, or None if it does not
\* decode; None without an image.
album_art_of(cache, image) ==
    IF image = "none" THEN None
    ELSE IF image \in cache THEN Some(image)
    ELSE IF image \in Images THEN Some(image)
    ELSE None

cache_with(cache, image) ==
    IF image \in Images THEN cache \cup {image} ELSE cache

\* read_metadata_for_queue: the items and the image cache after the loop.
RECURSIVE read_metadata_for_queue(_, _, _)
read_metadata_for_queue(cache, queue_items, files) ==
    IF queue_items = <<>>
    THEN [items |-> <<>>, image_cache |-> cache]
    ELSE LET path == Head(queue_items)
             file == Head(files)
             read == file.stage = "ok"
             rest == read_metadata_for_queue(
                         IF read THEN cache_with(cache, file.image) ELSE cache,
                         Tail(queue_items), Tail(files))
             item ==
                 CASE file.stage = "missing" -> <<>>
                   [] file.stage \in {"open_err", "playback_err", "metadata_err"} ->
                          <<create_generic_queue_item(path)>>
                   [] OTHER ->
                          <<[metadata |-> ReadMetadata, file_path |-> path,
                             album_art |-> album_art_of(cache, file.image)]>>
         IN  [items |-> item \o rest.items, image_cache |-> rest.image_cache]

\* Arc::strong_count of a cached thumbnail: the cache's reference and the
\* ones outside; get(&key).clone() copies the reference and adds none.
strong_count(outside, key) == 1 + outside[key]

\* evict_unneeded_data: the cache without the keys whose count is at most 2.
evict_unneeded_data(cache, outside) ==
    {key \in cache : ~(strong_count(outside, key) <= 2)}

\* The references the items of a MetadataRead event hold to a thumbnail.
held_by(items, key) ==
    Cardinality({i \in 1..Len(items) : items[i].album_art = Some(key)})

NoRead == [paths |-> <<>>, files |-> <<>>, items |-> <<>>]

Init ==
    /\ returned = [kind |-> "none"]
    /\ lastOpen = NoOpen
    /\ stream = NoStream
    /\ size = 0
    /\ buf = [i \in 0..0 |-> 0]
    /\ read_pos = 0
    /\ write_pos = 0
    /\ mutex = "free"
    /\ notified = FALSE
    /\ ppc = "idle"
    /\ frame = <<>>
    /\ interleaved = <<>>
    /\ slice = <<>>
    /\ written = 0
    /\ cpc = "idle"
    /\ cb = [k |-> 0, avail |-> 0, cnt |-> 0]
    /\ data = <<>>
    /\ submitted = <<>>
    /\ consumed = <<>>
    /\ closed = [done |-> FALSE, read_after |-> FALSE]
    /\ lastCall = NoCall
    /\ conversions = <<>>
    /\ host = "default"
    /\ lastProv = [op |-> "none", result |-> "None"]
    /\ lastfm = new
    /\ overflow = "unknown"
    /\ scrobbles = <<>>
    /\ lastEvent = NoEvent
    /\ delivered = NothingDelivered
    /\ app = [built |-> FALSE, configured |-> FALSE, panic |-> FALSE]
    /\ lastfmState = Disconnected
    /\ mmbsList = <<>>
    /\ tasks = NoTasks
    /\ run_queue = <<>>
    /\ mmbs_tasks = [e \in 1..MaxEvents |-> "unspawned"]
    /\ mmbs_mutex = [holder |-> 0, listeners |-> <<>>, notified |-> {}]
    /\ handled = [order |-> <<>>, overlap |-> FALSE]
    /\ commands_rx = <<>>
    /\ events_tx = <<>>
    /\ channel_ends = [commands |-> TRUE, events |-> TRUE]
    /\ image_cache = {}
    /\ refs = [key \in Images |-> 0]
    /\ thread = "running"
    /\ data_log = [sent |-> <<>>, handled |-> <<>>, read |-> NoRead]

Panicked == lastOpen.result = "Panic"

\* The caller thread is between two calls and the process is alive.
CallerFree == ppc = "idle" /\ ~Panicked

\* --------------------------------------------------------- device actions
\* Whether format f is one the descriptor d (a FormatInfo or a
\* SupportedFormat returned by the device) describes.
Describes(d, f) ==
    /\ d.originating_provider = f.originating_provider
    /\ d.sample_type = f.sample_type
    /\ d.channels = f.channels
    /\ d.buffer_size = f.buffer_size \/ f.buffer_size = BufferSizeUnknown
    /\ IF "sample_rate" \in DOMAIN d
       THEN d.sample_rate = f.sample_rate
       ELSE d.sample_rates.start <= f.sample_rate
            /\ f.sample_rate <= d.sample_rates.end

\* Whether format f was returned by the device's last successful query.
FromOwnDevice(f) ==
    \/ returned.kind = "default" /\ returned.ok /\ Describes(returned.value, f)
    \/ /\ returned.kind = "supported" /\ returned.ok
       /\ \E i \in 1..Len(returned.value) : Describes(returned.value[i], f)

GetDefaultFormat(native) ==
    /\ CallerFree
    /\ stream = NoStream
    /\ returned' = [kind |-> "default", ok |-> TRUE,
                    value |-> get_default_format(native)]
    /\ UNCHANGED <<sideVars, lastOpen, stream, rbVars, producerVars, consumerVars,
                   historyVars, lastCall>>

\* default_output_config() fails: InfoError::Unknown.
GetDefaultFormatFails ==
    /\ CallerFree
    /\ stream = NoStream
    /\ returned' = [kind |-> "default", ok |-> FALSE, value |-> "Unknown"]
    /\ UNCHANGED <<sideVars, lastOpen, stream, rbVars, producerVars, consumerVars,
                   historyVars, lastCall>>

GetSupportedFormats(configs) ==
    /\ CallerFree
    /\ stream = NoStream
    /\ returned' = [kind |-> "supported", ok |-> TRUE, native |-> configs,
                    value |-> get_supported_formats(configs)]
    /\ UNCHANGED <<sideVars, lastOpen, stream, rbVars, producerVars, consumerVars,
                   historyVars, lastCall>>

\* supported_output_configs() fails: InfoError::Unknown.
GetSupportedFormatsFails ==
    /\ CallerFree
    /\ stream = NoStream
    /\ returned' = [kind |-> "supported", ok |-> FALSE, value |-> "Unknown"]
    /\ UNCHANGED <<sideVars, lastOpen, stream, rbVars, producerVars, consumerVars,
                   historyVars, lastCall>>

\* open_device(format) on the device; on Ok the CpalStream exists, its ring
\* buffer holds buffer_size + 1 default samples and its callback is registered.
OpenDevice(format, built) ==
    /\ CallerFree
    /\ stream = NoStream
    /\ LET out == open_device(format, built) IN
       /\ lastOpen' = [called |-> TRUE, own |-> FromOwnDevice(format),
                       format |-> format, result |-> out.result,
                       rb_allocated |-> out.rb_allocated,
                       stream_built |-> out.stream_built]
       /\ IF out.result = "Ok"
          THEN /\ stream' = [exists |-> TRUE, format |-> format,
                             config |-> out.config]
               /\ size' = out.buffer_size
               /\ buf' = [i \in 0..out.buffer_size |-> 0]
          ELSE UNCHANGED <<stream, size, buf>>
    /\ UNCHANGED <<sideVars, returned, read_pos, write_pos, mutex, notified,
                   producerVars, consumerVars, historyVars, lastCall>>

\* ------------------------------------------------------ producer actions
\* A PlaybackFrame of n channels of l samples each; the samples are numbered
\* on from the samples submitted before, channel after channel, so that no
\* two submitted samples are equal.
NewFrame(n, l) ==
    [c \in 1..n |-> [j \in 1..l |-> Len(submitted) + (c - 1) * l + j]]

\* The interleaving law: output i (from 0) is channel i mod N, index i div N.
InterleaveLaw(samples) ==
    IF samples = <<>> THEN <<>>
    ELSE LET n == Len(samples)
             l == Len(samples[1])
         IN [i \in 1..(n * l) |->
                samples[((i - 1) % n) + 1][((i - 1) \div n) + 1]]

\* submit_frame(frame) up to the first write_blocking call.
SubmitFrame(n, l) ==
    /\ CallerFree
    /\ stream.exists
    /\ Len(submitted) + n * l <= MaxTotal
    /\ LET samples == NewFrame(n, l) IN
       /\ frame' = samples
       /\ interleaved' = interleave(samples)
       /\ slice' = interleave(samples)
       /\ submitted' = submitted \o InterleaveLaw(samples)
    /\ written' = 0
    /\ ppc' = "wb_call"
    /\ lastCall' = [op |-> "submit_frame", result |-> "Pending"]
    /\ UNCHANGED <<sideVars, deviceVars, stream, rbVars, consumerVars, consumed, closed>>

\* submit_frame returning an error when it leaves the buffer full.
submit_frame_result_full == IF is_full THEN "BufferFull" ELSE "Ok"

\* The value submit_frame returns after its loop: Ok(()).
submit_frame_result == "Ok"

\* write_blocking(slice) returns None on an empty slice: the while loop
\* ends and submit_frame returns Ok(()).
SubmitReturn ==
    /\ ppc = "wb_call"
    /\ slice = <<>>
    /\ ppc' = "idle"
    /\ lastCall' = [op |-> "submit_frame", result |-> submit_frame_result,
                    empty |-> frame = <<>> \/ frame[1] = <<>>]
    /\ frame' = <<>>
    /\ interleaved' = <<>>
    /\ written' = 0
    /\ UNCHANGED <<sideVars, deviceVars, stream, rbVars, slice, consumerVars, historyVars>>

\* write_blocking(slice): locks buf; on a full buffer waits on slots_free,
\* which releases the lock.
WbEnter ==
    /\ ppc = "wb_call"
    /\ slice # <<>>
    /\ mutex = "free"
    /\ IF is_full
       THEN /\ ppc' = "wb_wait"
            /\ notified' = FALSE
            /\ UNCHANGED mutex
       ELSE /\ ppc' = "wb_locked"
            /\ mutex' = "producer"
            /\ UNCHANGED notified
    /\ UNCHANGED <<sideVars, deviceVars, stream, size, buf, read_pos, write_pos, frame,
                   interleaved, slice, written, consumerVars, historyVars,
                   lastCall>>

\* The wait on slots_free ends with the consumer's notify_one and the lock
\* is taken again.
WbNotified ==
    /\ ppc = "wb_wait"
    /\ notified
    /\ mutex = "free"
    /\ ppc' = "wb_locked"
    /\ mutex' = "producer"
    /\ notified' = FALSE
    /\ UNCHANGED <<sideVars, deviceVars, stream, size, buf, read_pos, write_pos, frame,
                   interleaved, slice, written, consumerVars, historyVars,
                   lastCall>>

\* Condvar::wait may return without a notification.
WbSpurious ==
    /\ ppc = "wb_wait"
    /\ ~notified
    /\ mutex = "free"
    /\ ppc' = "wb_locked"
    /\ mutex' = "producer"
    /\ UNCHANGED <<sideVars, deviceVars, stream, size, buf, read_pos, write_pos,
                   notified, frame, interleaved, slice, written, consumerVars,
                   historyVars, lastCall>>

\* The count taken from the slice alone, whatever room the buffer has.
write_count_all == Len(slice)

\* The count write_blocking copies in and returns.
write_count == Min(Len(slice), slots_free(read_pos, write_pos, size))

\* The rest of the slice taken one sample too far: &slice[written + 1..].
rest_of_slice_off_by_one(s, n) == SubSeq(s, n + 2, Len(s))

\* The rest of the slice given up after one write: the loop runs once.
rest_of_slice_dropped(s, n) == <<>>

\* The rest of the slice after `n` samples were written: &slice[written..].
rest_of_slice(s, n) == SubSeq(s, n + 1, Len(s))

\* write_blocking with the lock held: copies min(len, slots_free) samples in,
\* advances write_pos, unlocks and returns Some(cnt); the loop body drops the
\* written part of the slice.
WbCopy ==
    /\ ppc = "wb_locked"
    /\ LET cnt == write_count IN
       /\ buf' = copy_in(buf, write_pos, slice, cnt)
       /\ write_pos' = advance(write_pos, cnt)
       /\ slice' = rest_of_slice(slice, cnt)
       /\ written' = written + cnt
    /\ mutex' = "free"
    /\ ppc' = "wb_call"
    /\ UNCHANGED <<sideVars, deviceVars, stream, size, read_pos, notified, frame,
                   interleaved, consumerVars, historyVars, lastCall>>

\* needs_input() called by the thread that owns the stream.
NeedsInput ==
    /\ CallerFree
    /\ stream.exists
    /\ lastCall' = [op |-> "needs_input", answer |-> needs_input]
    /\ UNCHANGED <<sideVars, deviceVars, stream, rbVars, producerVars, consumerVars,
                   historyVars>>

\* get_current_format() called by the thread that owns the stream.
GetCurrentFormat ==
    /\ CallerFree
    /\ stream.exists
    /\ lastCall' = [op |-> "get_current_format", format |-> get_current_format]
    /\ UNCHANGED <<sideVars, deviceVars, stream, rbVars, producerVars, consumerVars,
                   historyVars>>

\* The stream with its ring buffer and callback, as close_stream finds it.
StreamState ==
    [stream |-> stream, size |-> size, buf |-> buf, read_pos |-> read_pos,
     write_pos |-> write_pos, mutex |-> mutex, notified |-> notified,
     cpc |-> cpc, cb |-> cb, data |-> data]

\* close_stream() refusing to close while samples are buffered.
close_stream_when_drained(st) ==
    [result |-> IF st.read_pos = st.write_pos THEN "Ok" ELSE "Unknown",
     state |-> st]

\* close_stream(): the method body is Ok(()); st is the stream with its ring
\* buffer and callback, which the body does not touch.
close_stream(st) == [result |-> "Ok", state |-> st]

\* close_stream() called by the thread that owns the stream.
CloseStream ==
    /\ CallerFree
    /\ stream.exists
    /\ LET out == close_stream(StreamState) IN
       /\ stream' = out.state.stream
       /\ size' = out.state.size
       /\ buf' = out.state.buf
       /\ read_pos' = out.state.read_pos
       /\ write_pos' = out.state.write_pos
       /\ mutex' = out.state.mutex
       /\ notified' = out.state.notified
       /\ cpc' = out.state.cpc
       /\ cb' = out.state.cb
       /\ data' = out.state.data
       /\ lastCall' = [op |-> "close_stream", result |-> out.result,
                       again |-> lastCall.op = "close_stream",
                       unchanged |-> out.state = StreamState]
    /\ closed' = [closed EXCEPT !.done = TRUE]
    /\ UNCHANGED <<sideVars, deviceVars, producerVars, submitted, consumed>>

\* ------------------------------------------------------ consumer actions
\* The samples held in the ring buffer, oldest first.
Buffered == copy_out(buf, read_pos, count)

\* What read leaves in the data slice: the samples read, then the rest of
\* the slice as it was handed over.
after_read(d, samples) ==
    [i \in 1..Len(d) |-> IF i <= Len(samples) THEN samples[i] ELSE d[i]]

\* The output callback is invoked with a data slice of k samples and calls
\* cons.read(data): Ok(0) on an empty slice and Err(Empty) on an empty buffer
\* (unwrap_or(0) drops it), both without the lock; otherwise the count to read
\* is fixed and the lock is requested.
CbEnter(k, fill) ==
    /\ cpc = "idle"
    /\ stream.exists
    /\ ~Panicked
    /\ data' = [i \in 1..k |-> fill]
    /\ cb' = [k |-> k, avail |-> count, cnt |-> Min(k, count)]
    /\ cpc' = IF k = 0 \/ is_empty THEN "idle" ELSE "cb_lock"
    /\ UNCHANGED <<sideVars, deviceVars, stream, rbVars, producerVars, historyVars,
                   lastCall>>

\* read with the lock: copies cnt samples out, advances read_pos, notifies
\* slots_free and unlocks; the callback returns.
CbRead ==
    /\ cpc = "cb_lock"
    /\ mutex = "free"
    /\ LET samples == copy_out(buf, read_pos, cb.cnt) IN
       /\ data' = after_read(data, samples)
       /\ consumed' = consumed \o samples
       /\ closed' = [closed EXCEPT
                        !.read_after = @ \/ (closed.done /\ samples # <<>>)]
    /\ read_pos' = advance(read_pos, cb.cnt)
    /\ notified' = (ppc = "wb_wait")
    /\ cpc' = "idle"
    /\ UNCHANGED <<sideVars, deviceVars, stream, size, buf, write_pos, mutex,
                   producerVars, cb, submitted, lastCall>>

\* ---------------------------------------------------------- CpalProvider
\* Device names the host reports; "NULL" is a name like any other.
DeviceNames == {"a", "b", "NULL"}

\* The identity strings callers look up.
DeviceIds == DeviceNames \cup {"c"}

\* A cpal::Device as far as the provider looks at it: whether name()
\* succeeds, and the name.
HostDevices ==
    {[readable |-> TRUE, name |-> n] : n \in DeviceNames}
        \cup {[readable |-> FALSE, name |-> ""]}

\* What host.devices() yields: an error, or the devices in enumeration order.
Enumerations ==
    {[ok |-> FALSE, devices |-> <<>>]}
        \cup {[ok |-> TRUE, devices |-> ds] :
                 ds \in UNION {[1..n -> HostDevices] : n \in 0..MaxDevices}}

\* dev.name().unwrap_or("NULL".into())
name_or_null(dev) == IF dev.readable THEN dev.name ELSE "NULL"

\* get_devices(): every enumerated device wrapped, or ListError::Unknown.
get_devices(enum) ==
    IF ~enum.ok THEN [result |-> "Unknown", index |-> 0, count |-> 0]
    ELSE [result |-> "Ok", index |-> 0, count |-> Len(enum.devices)]

\* get_default_device(): the host's default output device if it has one.
get_default_device(has_default) ==
    IF has_default THEN [result |-> "Ok", index |-> 0, count |-> 1]
    ELSE [result |-> "DeviceDoesNotExist", index |-> 0, count |-> 0]

\* get_device_by_uid(id): find() returns the first enumerated device whose
\* name_or_null equals id; index is its place in the enumeration.
get_device_by_uid(enum, id) ==
    IF ~enum.ok THEN [result |-> "Unknown", index |-> 0, count |-> 0]
    ELSE LET hits == {i \in 1..Len(enum.devices) :
                         name_or_null(enum.devices[i]) = id}
         IN IF hits = {}
            THEN [result |-> "DeviceDoesNotExist", index |-> 0, count |-> 0]
            ELSE [result |-> "Ok", count |-> 1,
                  index |-> CHOOSE i \in hits : \A j \in hits : i <= j]

\* initialize(): self.host = cpal::default_host(); Ok(()).  default_host()
\* hands out the first host that can be created and panics ("the default
\* host should always be available") when there is none.
initialize(available) ==
    IF available THEN [result |-> "Ok", host |-> "default"]
    ELSE [result |-> "Panic", host |-> host]

\* The process is alive as far as the provider goes.
ProviderAlive == lastProv.result # "Panic"

Initialize(available) ==
    /\ ProviderAlive
    /\ LET out == initialize(available) IN
       /\ host' = out.host
       /\ lastProv' = [op |-> "initialize", result |-> out.result,
                       available |-> available]
    /\ UNCHANGED <<streamVars, conversions, lastfmVars, appVars>>

GetDevices(enum) ==
    /\ ProviderAlive
    /\ lastProv' = [op |-> "get_devices", result |-> get_devices(enum).result,
                    enum |-> enum, found |-> get_devices(enum)]
    /\ UNCHANGED <<streamVars, conversions, host, lastfmVars, appVars>>

GetDefaultDevice(has_default) ==
    /\ ProviderAlive
    /\ lastProv' = [op |-> "get_default_device",
                    result |-> get_default_device(has_default).result,
                    has_default |-> has_default]
    /\ UNCHANGED <<streamVars, conversions, host, lastfmVars, appVars>>

GetDeviceByUid(enum, id) ==
    /\ ProviderAlive
    /\ lastProv' = [op |-> "get_device_by_uid",
                    result |-> get_device_by_uid(enum, id).result,
                    enum |-> enum, id |-> id,
                    found |-> get_device_by_uid(enum, id)]
    /\ UNCHANGED <<streamVars, conversions, host, lastfmVars, appVars>>

NextProvider ==
    \/ \E available \in BOOLEAN : Initialize(available)
    \/ \E enum \in Enumerations : GetDevices(enum)
    \/ \E has_default \in BOOLEAN : GetDefaultDevice(has_default)
    \/ \E enum \in Enumerations, id \in DeviceIds : GetDeviceByUid(enum, id)

\* The provider: initialize and the three device lookups.
SpecProvider == Init /\ [][NextProvider]_vars

\* --------------------------------------------------------- LastFM events
\* The task that runs the scrobbler's handlers is alive.
ScrobblerAlive == lastEvent.panic = "none"

\* How a request to the Last.fm API ended.
request_outcome(sent, ok) ==
    IF ~sent THEN "none" ELSE IF ok THEN "ok" ELSE "failed"

NewTrack ==
    /\ ScrobblerAlive
    /\ lastfm' = new_track(lastfm)
    /\ scrobbles' = <<>>
    /\ delivered' = NothingDelivered
    /\ lastEvent' = [op |-> "new_track", position |-> 0, request |-> "none",
                     panic |-> "none"]
    /\ UNCHANGED <<streamVars, conversions, providerVars, appVars, overflow>>

\* metadata_recieved(info); a failure of the now-playing request is logged
\* and changes nothing.
MetadataRecieved(info) ==
    /\ ScrobblerAlive
    /\ lastfm' = metadata_recieved(lastfm, info)
    /\ lastEvent' = [op |-> "metadata_recieved", position |-> 0,
                     request |-> IF now_playing_sent(info) THEN "sent"
                                 ELSE "none",
                     panic |-> "none"]
    /\ delivered' = [delivered EXCEPT !.metadata = TRUE]
    /\ UNCHANGED <<streamVars, conversions, providerVars, appVars, overflow,
                   scrobbles>>

DurationChanged(duration) ==
    /\ ScrobblerAlive
    /\ lastfm' = duration_changed(lastfm, duration)
    /\ lastEvent' = [op |-> "duration_changed", position |-> 0,
                     request |-> "none", panic |-> "none"]
    /\ delivered' = [delivered EXCEPT !.duration = TRUE]
    /\ UNCHANGED <<streamVars, conversions, providerVars, appVars, overflow,
                   scrobbles>>

\* The seconds of the current track that went by without being counted.
Skipped ==
    (lastfm.last_postion - lastfm.accumulated_time + WordModulus) % WordModulus

\* position_changed(position); checks says whether the build has overflow
\* checks (not possible once it has wrapped), ok whether the scrobble request
\* succeeds.
PositionChanged(position, checks, ok) ==
    /\ ScrobblerAlive
    /\ position \in 0..MaxPosition
    /\ position >= lastfm.last_postion + 2
           => Skipped + (position - lastfm.last_postion) <= MaxSkipped
    /\ checks => overflow = "unknown"
    /\ LET out == position_changed(lastfm, position, checks) IN
       /\ lastfm' = out.self
       /\ overflow' = IF out.wrapped THEN "wraps" ELSE overflow
       /\ scrobbles' = IF out.request
                       THEN Append(scrobbles, request_outcome(TRUE, ok))
                       ELSE scrobbles
       /\ lastEvent' = [op |-> "position_changed", position |-> position,
                        request |-> request_outcome(out.request, ok),
                        panic |-> out.panic]
    /\ UNCHANGED <<streamVars, conversions, providerVars, appVars, delivered>>

NextLastFM ==
    \/ NewTrack
    \/ \E info \in Metadatas : MetadataRecieved(info)
    \/ \E duration \in Durations : DurationChanged(duration)
    \/ \E step \in PositionSteps, checks \in BOOLEAN, ok \in BOOLEAN :
           PositionChanged(lastfm.last_postion + step, checks, ok)

\* The scrobbler: the playback events it handles, one at a time.
SpecLastFM == Init /\ [][NextLastFM]_vars

\* ------------------------------------------------------ sign-in actions
\* build_models: the lastfm model is Connected with the stored session, for
\* which the service is created first, or Disconnected.
BuildModels(stored, configured) ==
    /\ ~app.built
    /\ app' = [built |-> TRUE, configured |-> configured, panic |-> FALSE]
    /\ IF stored = "valid"
       THEN /\ mmbsList' = create_last_fm_mmbs(mmbsList, configured, 0)
            /\ lastfmState' = Connected(0)
       ELSE /\ lastfmState' = Disconnected
            /\ UNCHANGED mmbsList
    /\ UNCHANGED <<besideSignIn, tasks>>

\* The user interface runs: build_models is done and no task has panicked.
AppRuns == app.built /\ ~app.panic

\* on_click: get_token is spawned when Disconnected, confirm with the token
\* when AwaitingFinalization, nothing when Connected.
Click ==
    /\ AppRuns
    /\ tasks.clicks < MaxClicks
    /\ tasks' =
           CASE lastfmState.kind = "Disconnected" ->
                    [tasks EXCEPT !.clicks = @ + 1, !.get_token = @ + 1]
             [] lastfmState.kind = "AwaitingFinalization" ->
                    [tasks EXCEPT !.clicks = @ + 1,
                                  !.confirm = Append(@, lastfmState.token)]
             [] OTHER -> [tasks EXCEPT !.clicks = @ + 1]
    /\ UNCHANGED <<besideSignIn, app, lastfmState, mmbsList>>

\* A get_token task runs to its end: LASTFM_API_KEY.unwrap() panics without
\* a key; with the token got the state becomes AwaitingFinalization(token);
\* without it an error is logged.
GetTokenDone(ok) ==
    /\ AppRuns
    /\ tasks.get_token > 0
    /\ IF ~app.configured
       THEN /\ app' = [app EXCEPT !.panic = TRUE]
            /\ tasks' = [tasks EXCEPT !.get_token = @ - 1]
            /\ UNCHANGED lastfmState
       ELSE IF ok
       THEN /\ lastfmState' = AwaitingFinalization(tasks.next_token)
            /\ tasks' = [tasks EXCEPT !.get_token = @ - 1, !.next_token = @ + 1]
            /\ UNCHANGED app
       ELSE /\ tasks' = [tasks EXCEPT !.get_token = @ - 1]
            /\ UNCHANGED <<app, lastfmState>>
    /\ UNCHANGED <<besideSignIn, mmbsList>>

\* The sequence without its i-th element.
RemoveAt(seq, i) == SubSeq(seq, 1, i - 1) \o SubSeq(seq, i + 1, Len(seq))

\* The i-th confirm task runs to its end: with the session got it emits the
\* session event, whose subscriber creates the service and sets the state to
\* Connected(session); without it an error is logged.
ConfirmDone(i, ok) ==
    /\ AppRuns
    /\ i \in 1..Len(tasks.confirm)
    /\ tasks' = [tasks EXCEPT !.confirm = RemoveAt(@, i),
                              !.sessions = IF ok THEN @ + 1 ELSE @]
    /\ IF ok
       THEN /\ mmbsList' = create_last_fm_mmbs(mmbsList, app.configured,
                                               tasks.confirm[i])
            /\ lastfmState' = Connected(tasks.confirm[i])
       ELSE UNCHANGED <<lastfmState, mmbsList>>
    /\ UNCHANGED <<besideSignIn, app>>

NextSignIn ==
    \/ \E stored \in StoredSessions, configured \in BOOLEAN :
           BuildModels(stored, configured)
    \/ Click
    \/ \E ok \in BOOLEAN : GetTokenDone(ok)
    \/ \E i \in 1..MaxClicks, ok \in BOOLEAN : ConfirmDone(i, ok)

\* The Last.fm sign-in: the button, its tasks and the session subscriber.
SpecSignIn == Init /\ [][NextSignIn]_vars

\* ------------------------------------------------- MMBS event dispatch
\* The events emitted so far: each has its task.
Emitted == {e \in 1..MaxEvents : mmbs_tasks[e] # "unspawned"}

\* The tasks whose handler has started and not finished.
InHandler == {e \in 1..MaxEvents : mmbs_tasks[e] \in {"request", "resumed"}}

\* The listener that the release of the lock notifies: the oldest one, unless
\* a notified listener has not run yet.
to_notify(m) ==
    IF m.notified = {} /\ m.listeners # <<>> THEN <<Head(m.listeners)>> ELSE <<>>

\* The guard is dropped: the lock is free and one listener is notified.
unlock(m) ==
    [holder |-> 0,
     listeners |-> IF to_notify(m) = <<>> THEN m.listeners ELSE Tail(m.listeners),
     notified |-> m.notified \cup {to_notify(m)[i] : i \in 1..Len(to_notify(m))}]

\* mmbs.lock() polled by task t: the lock is taken when it is free, whoever
\* waits for it; otherwise t listens for the release.
lock(m, t) ==
    IF m.holder = 0
    THEN [m EXCEPT !.holder = t, !.notified = @ \ {t}]
    ELSE [m EXCEPT !.listeners = Append(@, t), !.notified = @ \ {t}]

\* cx.emit(event): the subscriber spawns a detached task for the service,
\* which is scheduled behind the tasks that are ready.
Emit ==
    /\ Cardinality(Emitted) < MaxEvents
    /\ mmbs_tasks' = [mmbs_tasks EXCEPT ![Cardinality(Emitted) + 1] = "spawned"]
    /\ run_queue' = Append(run_queue, Cardinality(Emitted) + 1)
    /\ UNCHANGED <<besideDispatch, mmbs_mutex, handled>>

\* The executor polls the oldest ready task. A task at mmbs.lock() takes the
\* lock or listens; with the lock its handler starts and either ends in the
\* same poll or is suspended in a request, holding the lock. A task whose
\* request has ended finishes its handler and drops the guard.
Poll(suspends) ==
    /\ run_queue # <<>>
    /\ LET t == Head(run_queue)
           m == lock(mmbs_mutex, t)
       IN  IF mmbs_tasks[t] = "resumed"
           THEN /\ suspends
                /\ mmbs_tasks' = [mmbs_tasks EXCEPT ![t] = "done"]
                /\ mmbs_mutex' = unlock(mmbs_mutex)
                /\ run_queue' = Tail(run_queue) \o to_notify(mmbs_mutex)
                /\ UNCHANGED handled
           ELSE IF m.holder # t
           THEN /\ suspends
                /\ mmbs_tasks' = [mmbs_tasks EXCEPT ![t] = "waiting"]
                /\ mmbs_mutex' = m
                /\ run_queue' = Tail(run_queue)
                /\ UNCHANGED handled
           ELSE /\ handled' = [order |-> Append(handled.order, t),
                               overlap |-> handled.overlap \/ InHandler # {}]
                /\ IF suspends
                   THEN /\ mmbs_tasks' = [mmbs_tasks EXCEPT ![t] = "request"]
                        /\ mmbs_mutex' = m
                        /\ run_queue' = Tail(run_queue)
                   ELSE /\ mmbs_tasks' = [mmbs_tasks EXCEPT ![t] = "done"]
                        /\ mmbs_mutex' = unlock(m)
                        /\ run_queue' = Tail(run_queue) \o to_notify(m)
    /\ UNCHANGED besideDispatch

\* The request of a suspended handler ends: its waker schedules the task.
RequestDone(t) ==
    /\ mmbs_tasks[t] = "request"
    /\ mmbs_tasks' = [mmbs_tasks EXCEPT ![t] = "resumed"]
    /\ run_queue' = Append(run_queue, t)
    /\ UNCHANGED <<besideDispatch, mmbs_mutex, handled>>

NextDispatch ==
    \/ Emit
    \/ \E suspends \in BOOLEAN : Poll(suspends)
    \/ \E t \in 1..MaxEvents : RequestDone(t)

\* One broadcast service: the events emitted, their tasks and the Mutex.
SpecDispatch == Init /\ [][NextDispatch]_vars


\* ------------------------------------------------- data thread actions
\* The interface sends a command.
Send(command) ==
    /\ channel_ends.commands
    /\ Len(data_log.sent) < MaxCommands
    /\ commands_rx' = Append(commands_rx, command)
    /\ data_log' = [data_log EXCEPT !.sent = Append(@, command)]
    /\ UNCHANGED <<besideData, events_tx, channel_ends, image_cache, refs, thread>>

\* The command sender is dropped: the channel is closed once it is empty.
CloseCommands ==
    /\ channel_ends.commands
    /\ channel_ends' = [channel_ends EXCEPT !.commands = FALSE]
    /\ UNCHANGED <<besideData, commands_rx, events_tx, image_cache, refs,
                   thread, data_log>>

\* The event receiver is dropped.
DropEvents ==
    /\ channel_ends.events
    /\ channel_ends' = [channel_ends EXCEPT !.events = FALSE]
    /\ UNCHANGED <<besideData, commands_rx, events_tx, image_cache, refs,
                   thread, data_log>>

\* A holder outside the cache drops its reference to a thumbnail.
DropRef(key) ==
    /\ refs[key] > 0
    /\ refs' = [refs EXCEPT ![key] = @ - 1]
    /\ UNCHANGED <<besideData, commands_rx, events_tx, channel_ends, image_cache,
                   thread, data_log>>

\* The events one command makes the thread send, and the cache after it.
handle(command, files) ==
    CASE command.kind = "DecodeImage" ->
             LET decoded == decode_image(command.data, command.image_type,
                                         command.layout)
             IN  [events |-> decoded.events \o
                                 IF decoded.result = "Err"
                                 THEN <<DecodeError(command.image_type)>>
                                 ELSE <<>>,
                  image_cache |-> image_cache]
      [] command.kind = "ReadQueueMetadata" ->
             LET read == read_metadata_for_queue(image_cache, command.paths, files)
             IN  [events |-> <<MetadataRead(read.items)>>,
                  image_cache |-> read.image_cache]
      [] OTHER ->
             [events |-> <<>>,
              image_cache |-> evict_unneeded_data(image_cache, refs)]

\* What of the events is sent: all of them while the receiver exists; the
\* first send without a receiver fails and expect panics.
sent_of(events) == IF channel_ends.events THEN events ELSE <<>>

\* One turn of run's loop: recv gives the oldest command, which is handled to
\* its end; its events are sent, and the items sent hold their thumbnails.
HandleCommand(files) ==
    /\ thread = "running"
    /\ commands_rx # <<>>
    /\ LET command == Head(commands_rx)
           done == handle(command, files)
       IN  /\ Len(files) = Len(command.paths)
           /\ commands_rx' = Tail(commands_rx)
           /\ events_tx' = events_tx \o sent_of(done.events)
           /\ thread' = IF done.events # <<>> /\ ~channel_ends.events
                        THEN "panicked"
                        ELSE "running"
           /\ image_cache' = done.image_cache
           /\ refs' = [key \in Images |->
                          refs[key] +
                              IF command.kind = "ReadQueueMetadata" /\ channel_ends.events
                              THEN held_by(done.events[1].items, key)
                              ELSE 0]
           /\ data_log' =
                  [data_log EXCEPT
                      !.handled = Append(@, command),
                      !.read = IF command.kind = "ReadQueueMetadata"
                               THEN [paths |-> command.paths, files |-> files,
                                     items |-> done.events[1].items]
                               ELSE @]
    /\ UNCHANGED <<besideData, channel_ends>>

\* recv fails: the channel is empty and its sender is gone; run returns.
EndOfCommands ==
    /\ thread = "running"
    /\ commands_rx = <<>>
    /\ ~channel_ends.commands
    /\ thread' = "ended"
    /\ UNCHANGED <<besideData, commands_rx, events_tx, channel_ends, image_cache,
                   refs, data_log>>

\* What the thread finds for the paths of a command of at most one path.
FilesOfOnePath == {<<>>} \cup {<<file>> : file \in FileOutcomes}

\* The commands the interface sends.
Commands ==
    {DecodeImage(d, t, l) : d \in ImageDatas, t \in ImageTypes, l \in ImageLayouts}
        \cup {ReadQueueMetadata(paths) : paths \in {<<>>, <<<<"d", "/", "a">>>>}}
        \cup {EvictQueueCache}

NextData ==
    \/ \E command \in Commands : Send(command)
    \/ CloseCommands
    \/ DropEvents
    \/ \E key \in Images : DropRef(key)
    \/ \E files \in FilesOfOnePath : HandleCommand(files)
    \/ EndOfCommands

\* The data thread, its channel_ends and the holders of its thumbnails.
SpecData == Init /\ [][NextData]_vars

\* The thread is scheduled: a command received is handled, and run returns
\* when recv fails.
FairSpecData ==
    /\ SpecData
    /\ WF_vars(\E files \in FilesOfOnePath : HandleCommand(files))
    /\ WF_vars(EndOfCommands)

\* The interface asks for the metadata of a queue, once.
ReadQueue(paths) ==
    /\ data_log.sent = <<>>
    /\ Send(ReadQueueMetadata(paths))

NextMetadata ==
    \/ \E paths \in SeqsUpTo(Paths, MaxPaths) : ReadQueue(paths)
    \/ \E files \in SeqsUpTo(FileOutcomes, MaxPaths) : HandleCommand(files)

\* One call of read_metadata_for_queue: a ReadQueueMetadata command with any
\* paths, and the files as the thread finds them.
SpecMetadata == Init /\ [][NextMetadata]_vars

\* ------------------------------------------------------- format mapping
\* A canonical encoding is mapped to the native one and back.
MapToNative(format) ==
    /\ Len(conversions) < MaxConversions
    /\ conversions' = Append(conversions,
           [dir |-> "to_native", from |-> format,
            to |-> cpal_from_format(format),
            back |-> format_from_cpal(cpal_from_format(format))])
    /\ UNCHANGED <<streamVars, providerVars, lastfmVars, appVars>>

\* A native encoding is mapped to the canonical one and back.
MapFromNative(format) ==
    /\ Len(conversions) < MaxConversions
    /\ conversions' = Append(conversions,
           [dir |-> "from_native", from |-> format,
            to |-> format_from_cpal(format),
            back |-> cpal_from_format(format_from_cpal(format))])
    /\ UNCHANGED <<streamVars, providerVars, lastfmVars, appVars>>

NextFormats ==
    \/ \E format \in SampleFormats : MapToNative(format)
    \/ \E format \in CpalSampleFormats : MapFromNative(format)

\* The sample-type model: the two mappings applied to every encoding.
SpecFormats == Init /\ [][NextFormats]_vars

\* -------------------------------------------------------- specifications
\* A callback invocation that requests at least one sample.
Callback == \E k \in 1..MaxReq, fill \in SliceFills : CbEnter(k, fill)

\* The transport: one device opened, frames submitted, callbacks running.
Next ==
    \/ \E format \in StreamFormats, built \in BOOLEAN : OpenDevice(format, built)
    \/ \E n \in 0..MaxChannels, l \in 0..MaxLen : SubmitFrame(n, l)
    \/ SubmitReturn
    \/ WbEnter
    \/ WbNotified
    \/ WbSpurious
    \/ WbCopy
    \/ NeedsInput
    \/ GetCurrentFormat
    \/ CloseStream
    \/ \E fill \in SliceFills : CbEnter(0, fill)
    \/ Callback
    \/ CbRead

Spec == Init /\ [][Next]_vars

\* The callback keeps being invoked and the threads keep running: each
\* thread's next step is taken when it stays possible, and a thread asking
\* for the mutex gets it when it is free again and again.
Fairness ==
    /\ WF_vars(Callback)
    /\ SF_vars(CbRead)
    /\ WF_vars(SubmitReturn)
    /\ SF_vars(WbEnter)
    /\ SF_vars(WbNotified)
    /\ WF_vars(WbCopy)

FairSpec == Init /\ [][Next]_vars /\ Fairness

\* Sequences of at most MaxConfigs native ranges.
NativeRangeLists ==
    UNION {[1..n -> NativeRanges] : n \in 0..MaxConfigs}

\* The device side: format queries and open_device with any FormatInfo.
NextDevice ==
    \/ \E native \in NativeDefaults : GetDefaultFormat(native)
    \/ GetDefaultFormatFails
    \/ \E configs \in NativeRangeLists : GetSupportedFormats(configs)
    \/ GetSupportedFormatsFails
    \/ \E format \in FormatInfos, built \in BOOLEAN : OpenDevice(format, built)

SpecDevice == Init /\ [][NextDevice]_vars

\* Sequences of at most MaxConfigs native ranges of any encoding.
NativeRangeListsAll ==
    UNION {[1..n -> NativeRangesAll] : n \in 0..MaxConfigs}

\* The capability queries alone, over every native encoding.
NextQuery ==
    \/ \E native \in NativeDefaults : GetDefaultFormat(native)
    \/ GetDefaultFormatFails
    \/ \E configs \in NativeRangeListsAll : GetSupportedFormats(configs)
    \/ GetSupportedFormatsFails

SpecQuery == Init /\ [][NextQuery]_vars

\* ------------------------------------------------------------ properties
\* C1: open_device with a FormatInfo whose backend tag is not "cpal" returns
\* InvalidConfigProvider whatever the sample encoding (Unsupported too), and
\* then allocates no ring buffer and constructs no native stream.
ForeignFormatRejected ==
    (lastOpen.called /\ lastOpen.format.originating_provider # "cpal")
        => /\ lastOpen.result = "InvalidConfigProvider"
           /\ ~lastOpen.rb_allocated
           /\ ~lastOpen.stream_built
           /\ ~stream.exists

\* A foreign-tagged format with the Unsupported encoding was rejected.
ForeignUnsupportedRejected ==
    /\ lastOpen.called
    /\ lastOpen.format.originating_provider = "other"
    /\ lastOpen.format.sample_type = "Unsupported"
    /\ lastOpen.result = "InvalidConfigProvider"

\* C2: every descriptor get_default_format or get_supported_formats returns
\* carries the device's tag "cpal", and open_device with a format the device
\* returned never fails with InvalidConfigProvider.
OwnFormatsNeverMismatch ==
    /\ (returned.kind = "default" /\ returned.ok)
           => returned.value.originating_provider = "cpal"
    /\ (returned.kind = "supported" /\ returned.ok)
           => \A i \in 1..Len(returned.value) :
                  returned.value[i].originating_provider = "cpal"
    /\ (lastOpen.called /\ lastOpen.own)
           => lastOpen.result # "InvalidConfigProvider"

\* The device was opened with a format it returned itself.
OwnFormatOpened ==
    /\ lastOpen.called
    /\ lastOpen.own
    /\ lastOpen.result = "Ok"

\* C3: the samples the callbacks read, in order, are at every moment a prefix
\* of the interleaved frames submitted so far: nothing is dropped, duplicated,
\* reordered or overwritten before it is read.
ConsumedIsPrefixOfSubmitted ==
    /\ Len(consumed) <= Len(submitted)
    /\ \A i \in 1..Len(consumed) : consumed[i] = submitted[i]

\* The frame [1,2,3], [4,5,6] went through a buffer smaller than the frame
\* and was read as 1,4,2,5,3,6.
ScenarioFrameConsumed ==
    /\ consumed = <<1, 4, 2, 5, 3, 6>>
    /\ size < 6

\* The sample count of the frame being submitted: channels x length.
FrameSamples == IF frame = <<>> THEN 0 ELSE Len(frame) * Len(frame[1])

\* submit_frame is about to return: write_blocking meets the empty slice.
AboutToReturn == ppc = "wb_call" /\ slice = <<>>

\* C4: when submit_frame returns, the counts its write_blocking calls returned
\* add up to the frame's sample count, also for a frame larger than the free
\* space or the whole buffer.
WrittenEqualsFrame == AboutToReturn => written = FrameSamples

\* A six-sample frame was written in full through a smaller buffer.
LargeFrameWritten ==
    /\ AboutToReturn
    /\ written = 6
    /\ 0 < size /\ size < 6

\* C5: interleave of N channels of length L has length N x L and holds
\* input[i mod N][i div N] at index i; zero channels give the empty sequence.
InterleaveFollowsLaw ==
    ppc # "idle" =>
        LET n == Len(frame) IN
        IF n = 0
        THEN interleaved = <<>>
        ELSE LET l == Len(frame[1]) IN
             /\ Len(interleaved) = n * l
             /\ \A i \in 0..(n * l - 1) :
                    interleaved[i + 1] = frame[(i % n) + 1][(i \div n) + 1]

\* interleave turned [1,2,3], [4,5,6] into 1,4,2,5,3,6.
ScenarioFrameInterleaved ==
    /\ frame = <<<<1, 2, 3>>, <<4, 5, 6>>>>
    /\ interleaved = <<1, 4, 2, 5, 3, 6>>

\* A callback has run and returned.
CallbackReturned == cpc = "idle" /\ Len(data) = cb.k /\ cb.k > 0

\* C6: a callback asked for k samples hands the hardware exactly k samples:
\* the next buffered ones, and on underrun zeros in the positions that no
\* buffered sample fills.
CallbackDeliversSamplesOrSilence ==
    CallbackReturned =>
        LET read == Min(cb.k, cb.avail) IN
        /\ Len(consumed) >= read
        /\ \A i \in 1..cb.k :
               data[i] = IF i <= read
                         THEN submitted[Len(consumed) - read + i]
                         ELSE 0

\* C7: the callback never waits: it is never at the lock while the producer
\* holds the ring buffer's mutex.
CallbackNeverWaits == ~(cpc = "cb_lock" /\ mutex = "producer")

\* C8: while the callback keeps being invoked, every submit_frame on an open
\* stream eventually returns.
SubmitEventuallyReturns == (ppc # "idle") ~> (ppc = "idle")

\* A submission is blocked on the full buffer.
Blocked == ppc = "wb_wait"

\* C9: needs_input() returns false only while a submission is blocked on a
\* full buffer and true in every other state.
NeedsInputUnlessBlocked ==
    lastCall.op = "needs_input" => (lastCall.answer <=> ~Blocked)

\* needs_input() returned true with the buffer full and no submission blocked.
NeedsInputOnFullBuffer ==
    /\ lastCall.op = "needs_input"
    /\ lastCall.answer
    /\ size > 0
    /\ is_full

\* C10: close_stream returns Ok after any sequence of operations, and a call
\* that follows another close_stream leaves the stream as it found it.
CloseOkAndIdempotent ==
    lastCall.op = "close_stream"
        => /\ lastCall.result = "Ok"
           /\ lastCall.again => lastCall.unchanged

\* close_stream was called twice in a row on a stream with samples buffered.
ClosedTwice ==
    /\ lastCall.op = "close_stream"
    /\ lastCall.again
    /\ lastCall.result = "Ok"
    /\ ~is_empty

\* C11: after close_stream has returned the callback is stopped: no callback
\* of the stream consumes a sample any more.
NothingConsumedAfterClose == closed.done => ~closed.read_after

\* C12: a submit_frame issued after close_stream fails instead of writing
\* into the ring buffer: it writes nothing and does not return Ok.
SubmitAfterCloseFails ==
    closed.done =>
        /\ ppc # "idle" => written = 0
        /\ lastCall.op = "submit_frame" => lastCall.result # "Ok"

\* A submit_frame call that has not returned yet.
SubmitPending == lastCall.op = "submit_frame" /\ lastCall.result = "Pending"

\* C13: submit_frame never returns an error: a call is either still inside
\* its loop (writing or blocked) or has returned Ok.
SubmitNeverErrs ==
    lastCall.op = "submit_frame" =>
        \/ lastCall.result = "Ok" /\ ppc = "idle"
        \/ lastCall.result = "Pending" /\ ppc # "idle"

\* A submission that had to wait returned Ok and left the buffer full.
SubmitReturnedOkOnFullBuffer ==
    /\ lastCall.op = "submit_frame"
    /\ lastCall.result = "Ok"
    /\ size > 0
    /\ is_full

\* The eight native tags that have a canonical counterpart.
NativeCounterparts == {"I8", "I16", "I32", "U8", "U16", "U32", "F32", "F64"}

\* C14: mapping a canonical encoding to native and back gives the encoding
\* again for each of the eight, and both mappings are injective on the eight.
RoundTripOnTheEight ==
    \A i \in 1..Len(conversions) :
        LET c == conversions[i] IN
        /\ (c.dir = "to_native" /\ c.from \in CanonicalFormats)
               => c.back = c.from
        /\ \A j \in 1..Len(conversions) :
               LET d == conversions[j] IN
               (/\ c.dir = d.dir
                /\ c.from # d.from
                /\ c.from \in CanonicalFormats \cup NativeCounterparts
                /\ d.from \in CanonicalFormats \cup NativeCounterparts)
                   => c.to # d.to

\* Unsigned16 and Signed16 were both mapped to native and back.
SixteenBitRoundTrips ==
    /\ Len(conversions) = 2
    /\ conversions[1].dir = "to_native" /\ conversions[1].from = "Unsigned16"
    /\ conversions[1].back = "Unsigned16"
    /\ conversions[2].dir = "to_native" /\ conversions[2].from = "Signed16"

\* Whether the native configuration's encoding has a canonical counterpart.
HasCounterpart(c) == c.sample_format \in NativeCounterparts

\* C15: no entry of the list get_supported_formats returns has the
\* Unsupported encoding, and the list holds, in order, exactly the reported
\* configurations whose encoding has a canonical counterpart.
SupportedFormatsFiltered ==
    (returned.kind = "supported" /\ returned.ok) =>
        LET kept == SelectSeq(returned.native, HasCounterpart) IN
        /\ Len(returned.value) = Len(kept)
        /\ \A i \in 1..Len(returned.value) :
               /\ returned.value[i].sample_type # "Unsupported"
               /\ returned.value[i].sample_type \in CanonicalFormats
               /\ returned.value[i].sample_rates.start = kept[i].min_sample_rate
               /\ returned.value[i].sample_rates.end = kept[i].max_sample_rate
               /\ returned.value[i].channels = Count(kept[i].channels)

\* A device reporting U64 and F32 got the F32 entry alone.
SixtyFourBitFilteredOut ==
    /\ returned.kind = "supported" /\ returned.ok
    /\ Len(returned.native) = 2
    /\ returned.native[1].sample_format = "U64"
    /\ returned.native[2].sample_format = "F32"
    /\ Len(returned.value) = 1
    /\ returned.value[1].sample_type = "Float32"

\* C16: get_default_format returns a usable FormatInfo: its encoding is one
\* of the eight canonical kinds, and open_device with it never fails with
\* InvalidSampleFormat.
DefaultFormatIsUsable ==
    /\ (returned.kind = "default" /\ returned.ok)
           => returned.value.sample_type \in CanonicalFormats
    /\ (lastOpen.called /\ lastOpen.own /\ returned.kind = "default")
           => lastOpen.result # "InvalidSampleFormat"

\* The outcomes of create_stream: the stream, or a failure of the native layer
\* or of the channel specification.
ConstructionOutcomes == {"Ok", "Unknown", "Panic"}

\* C17: with a matching tag open_device returns InvalidSampleFormat exactly
\* when the encoding is not one of the eight canonical kinds, and then
\* allocates no ring buffer and builds no stream; each of the eight goes to
\* stream construction.
InvalidSampleFormatExactly ==
    (lastOpen.called /\ lastOpen.format.originating_provider = "cpal") =>
        IF lastOpen.format.sample_type \in CanonicalFormats
        THEN lastOpen.result \in ConstructionOutcomes
        ELSE /\ lastOpen.result = "InvalidSampleFormat"
             /\ ~lastOpen.rb_allocated
             /\ ~lastOpen.stream_built
             /\ ~stream.exists

\* A cpal-tagged format with the Unsupported encoding was rejected.
UnsupportedEncodingRejected ==
    /\ lastOpen.called
    /\ lastOpen.format.originating_provider = "cpal"
    /\ lastOpen.format.sample_type = "Unsupported"
    /\ lastOpen.result = "InvalidSampleFormat"

\* C18: no Device or DeviceProvider operation aborts the process: each
\* returns a value or an error value.
NoOperationAborts ==
    /\ lastOpen.result # "Panic"
    /\ lastProv.result # "Panic"

\* The places in the enumeration of the devices whose identity string,
\* the name the device reports, is id.
DevicesWithIdentity(enum, id) ==
    {i \in 1..Len(enum.devices) :
        enum.devices[i].readable /\ enum.devices[i].name = id}

\* C19: get_device_by_uid(id) returns the first enumerated device whose
\* identity equals id and fails with DeviceDoesNotExist exactly when no
\* enumerated device has it; a device whose name cannot be read matches no id.
FindsFirstDeviceWithIdentity ==
    (lastProv.op = "get_device_by_uid" /\ lastProv.enum.ok) =>
        LET hits == DevicesWithIdentity(lastProv.enum, lastProv.id) IN
        IF hits = {}
        THEN lastProv.result = "DeviceDoesNotExist"
        ELSE /\ lastProv.result = "Ok"
             /\ lastProv.found.index \in hits
             /\ \A j \in hits : lastProv.found.index <= j

\* C20: initialize() fails with an initialization error when no audio host
\* is available, and otherwise binds the default host and returns Ok.
InitializeReportsMissingHost ==
    lastProv.op = "initialize" =>
        IF lastProv.available
        THEN lastProv.result = "Ok" /\ host = "default"
        ELSE lastProv.result = "InitializationError"

\* The cursors counted without wrapping: the samples written into the ring
\* buffer so far and the samples read out of it so far.
SamplesWritten == Len(submitted) - Len(slice)

SamplesRead == Len(consumed)

\* The ring buffer holds between 0 and size samples, and the cursors are the
\* unwrapped counts taken modulo the number of slots.
CursorsWithinCapacity ==
    /\ 0 <= SamplesWritten - SamplesRead
    /\ SamplesWritten - SamplesRead <= size
    /\ count = SamplesWritten - SamplesRead
    /\ write_pos = SamplesWritten % (size + 1)
    /\ read_pos = SamplesRead % (size + 1)

\* C21: under every interleaving of writes and reads the ring buffer holds
\* between 0 and its capacity: the write cursor is never more than the
\* capacity ahead of the read cursor, the read cursor never passes the write
\* cursor, and both cursors only advance.
CursorsStayBoundedAndAdvance ==
    /\ CursorsWithinCapacity
    /\ [][/\ CursorsWithinCapacity'
          /\ SamplesWritten' >= SamplesWritten
          /\ SamplesRead' >= SamplesRead]_vars

\* The buffer is full after both cursors have wrapped around its end.
FullBufferAfterWrap ==
    /\ size > 0
    /\ is_full
    /\ SamplesRead > size
    /\ SamplesWritten = SamplesRead + size

\* C22: the capacity chosen at open time is floor(200 x rate / 1000) x
\* channels, which is rate x 0.2 x channels when the rate is a multiple of 5,
\* is positive for every positive rate and channel count, and stays as it is
\* for the life of the stream.
CapacityIsFifthOfASecond ==
    stream.exists =>
        LET rate == stream.format.sample_rate
            channels == stream.format.channels.count
        IN /\ size = ((200 * rate) \div 1000) * channels
           /\ (rate % 5 = 0) => (5 * size = rate * channels)
           /\ (rate > 0 /\ channels > 0) => size > 0
           /\ DOMAIN buf = 0..size

\* A submission holds more samples than the ring buffer has room for.
ExceedsFreeSpace ==
    /\ ppc # "idle"
    /\ Len(slice) > slots_free(read_pos, write_pos, size)

\* The step is none of the callback's: it is not invoked and reads nothing.
NoCallbackStep == UNCHANGED <<cpc, cb, data, read_pos, consumed>>

\* The samples buffered before the step are still buffered, oldest first.
BufferedKept ==
    /\ Len(Buffered) <= Len(Buffered')
    /\ \A i \in 1..Len(Buffered) : Buffered'[i] = Buffered[i]

\* C23: there is no timeout on submission: while no callback runs, a
\* submit_frame holding more samples than the buffer has room for does not
\* return, with Ok or with an error, and the samples buffered stay as they
\* are.
BlockedSubmitNeverTimesOut ==
    [][(ExceedsFreeSpace /\ NoCallbackStep) =>
           /\ ExceedsFreeSpace'
           /\ SubmitPending'
           /\ BufferedKept]_vars

\* A submission has filled the buffer and waits with samples left, and no
\* callback has run since the stream was opened.
SubmitWaitsWithoutConsumer ==
    /\ ppc = "wb_wait"
    /\ size > 0
    /\ written = size
    /\ slice # <<>>
    /\ consumed = <<>>
    /\ cpc = "idle"
    /\ data = <<>>

\* C24: the native configuration of an opened stream has 2 channels and the
\* FormatInfo's sample rate whatever channel count the FormatInfo carries;
\* the capacity is computed from the FormatInfo's channel count and the
\* interleaving from the submitted frame's channel count.
NativeConfigIsStereo ==
    /\ stream.exists =>
           /\ stream.config.channels = 2
           /\ stream.config.sample_rate = stream.format.sample_rate
           /\ size = ((200 * stream.format.sample_rate) \div 1000)
                         * stream.format.channels.count
    /\ ppc # "idle" => interleaved = InterleaveLaw(frame)

\* A one-channel FormatInfo gave a two-channel native configuration with a
\* one-channel capacity, and a two-channel frame is interleaved into it.
MonoFormatStereoConfig ==
    /\ stream.exists
    /\ stream.format.channels = Count(1)
    /\ stream.config.channels = 2
    /\ size = 2
    /\ ppc # "idle"
    /\ Len(frame) = 2
    /\ Len(interleaved) = 4

\* C25: get_current_format returns the FormatInfo the stream was opened
\* with: no submit_frame, needs_input, close_stream or callback changes it.
FormatNeverChanges ==
    /\ stream.exists => stream.format = lastOpen.format
    /\ lastCall.op = "get_current_format" => lastCall.format = lastOpen.format

\* get_current_format returned the one-channel format of the open call after
\* frames were submitted and consumed and the stream was closed.
FormatReadAfterUse ==
    /\ lastCall.op = "get_current_format"
    /\ lastCall.format.channels = Count(1)
    /\ lastCall.format = lastOpen.format
    /\ closed.done
    /\ consumed # <<>>

\* The frame being submitted is empty: no channels, or channels of length 0.
EmptyFrame == ppc # "idle" /\ FrameSamples = 0

\* An empty frame never gets past the call that meets the empty slice.
EmptyFrameAtReturn ==
    EmptyFrame => /\ ppc = "wb_call"
                  /\ slice = <<>>
                  /\ written = 0

\* C26: submit_frame with an empty frame returns Ok at once in every buffer
\* state, a full buffer with a stalled consumer included, and leaves the ring
\* buffer as it is.
EmptyFrameReturnsAtOnce ==
    /\ EmptyFrameAtReturn
    /\ [][/\ EmptyFrameAtReturn'
          /\ ((EmptyFrame \/ EmptyFrame') /\ ppc' # ppc) =>
                 /\ UNCHANGED <<size, buf, write_pos, read_pos>>
                 /\ ppc' = "idle" => lastCall'.result = "Ok"]_vars

\* An empty frame of zero-length channels was submitted on a full buffer that
\* no callback has read from, and the call returned Ok.
EmptyFrameOnFullBuffer ==
    /\ lastCall.op = "submit_frame"
    /\ lastCall.result = "Ok"
    /\ lastCall.empty
    /\ size > 0
    /\ is_full
    /\ consumed = <<>>
    /\ cpc = "idle"

\* The scrobbler holds metadata with both the artist and the track name.
MetadataComplete(self) ==
    self.metadata.some /\ self.metadata.artist /\ self.metadata.name

\* The listening time self holds is enough to scrobble its track.
ListenedEnough(self) ==
    /\ self.duration >= 30
    /\ \/ self.accumulated_time > self.duration \div 2
       \/ self.accumulated_time > 240

\* C27: between two consecutive new_track events the scrobbler issues at
\* most one scrobble request, also when that request failed.
AtMostOneScrobblePerTrack == Len(scrobbles) <= 1

\* The one scrobble request of the track failed, and a later position event
\* that found the track listened to long enough sent no second one.
FailedScrobbleNotRepeated ==
    /\ scrobbles = <<"failed">>
    /\ lastEvent.op = "position_changed"
    /\ lastEvent.request = "none"
    /\ ListenedEnough(lastfm)
    /\ MetadataComplete(lastfm)

\* C28: no scrobble is issued before the first new_track: whenever
\* has_scrobbled is false the start timestamp is set, so that reading it in
\* position_changed never fails.
NoScrobbleBeforeFirstTrack ==
    /\ ~lastfm.has_scrobbled => lastfm.start_timestamp.some
    /\ ~lastfm.start_timestamp.some => scrobbles = <<>>
    /\ lastEvent.panic # "unwrap"

\* Before the first new_track a position event found enough listening time
\* and complete metadata, and sent nothing.
EnoughListenedBeforeFirstTrack ==
    /\ ~lastfm.start_timestamp.some
    /\ lastEvent.op = "position_changed"
    /\ lastEvent.panic = "none"
    /\ ListenedEnough(lastfm)
    /\ MetadataComplete(lastfm)
    /\ scrobbles = <<>>

\* C29: position_changed(p) adds p - last_position to accumulated_time
\* exactly when last_position <= p < last_position + 2 and leaves it as it is
\* otherwise: a seek backwards neither fails nor changes the counter, a jump
\* of 2 or more is not counted, and last_position becomes p.
AccumulatesPlayedSecondsOnly ==
    [][lastEvent'.op = "position_changed" =>
           LET p == lastEvent'.position
               last == lastfm.last_postion
           IN /\ lastEvent'.panic # "overflow"
              /\ lastfm'.last_postion = p
              /\ lastfm'.accumulated_time =
                     IF last <= p /\ p < last + 2
                     THEN lastfm.accumulated_time + (p - last)
                     ELSE lastfm.accumulated_time]_vars

\* C30: position_changed issues a scrobble request only when the duration is
\* at least 30, the listening time is above half the duration or above 240,
\* the track is not scrobbled yet and metadata with artist and track name is
\* held; with the metadata or one of the two fields missing it sends nothing
\* and leaves the track un-scrobbled.
ScrobbleOnlyWhenDue ==
    [][lastEvent'.op = "position_changed" =>
           LET issued == lastEvent'.request \in {"ok", "failed"}
               due == ListenedEnough(lastfm') /\ ~lastfm.has_scrobbled
           IN /\ issued => /\ due
                           /\ MetadataComplete(lastfm')
                           /\ Len(scrobbles') = Len(scrobbles) + 1
              /\ (due /\ ~MetadataComplete(lastfm')) =>
                     /\ ~issued
                     /\ scrobbles' = scrobbles
                     /\ ~lastfm'.has_scrobbled]_vars

\* A 30-second track was scrobbled at its 16th second of listening.
ScrobbledPastHalf ==
    /\ lastEvent.op = "position_changed"
    /\ lastEvent.request = "ok"
    /\ lastfm.duration = 30
    /\ lastfm.accumulated_time = 16
    /\ lastfm.has_scrobbled

\* C31: a scrobble request issued for a track carries that track's metadata
\* and duration: both were delivered, by metadata_recieved and by
\* duration_changed, after the track's new_track, and are not left over from
\* the track before.
ScrobbleCarriesOwnTrackData ==
    (lastEvent.op = "position_changed" /\ lastEvent.request \in {"ok", "failed"})
        => /\ delivered.metadata
           /\ delivered.duration

\* C32: once the sign-in state is Connected it never becomes Disconnected or
\* AwaitingFinalization, under every interleaving of clicks with the
\* completion of the get_token and confirm tasks outstanding.
ConnectedIsFinal ==
    [][lastfmState.kind = "Connected" => lastfmState'.kind = "Connected"]_vars

\* The entries of the broadcast-service list under the key "lastfm".
LastFMEntries == {i \in 1..Len(mmbsList) : mmbsList[i].key = "lastfm"}

\* C33: with the API key and secret configured the broadcast-service list
\* holds at most one service under "lastfm", and holds one whenever the
\* sign-in state is Connected, after a stored session was loaded at startup
\* as after a session event.
OneLastFMServiceWhenConnected ==
    (app.built /\ app.configured) =>
        /\ Cardinality(LastFMEntries) <= 1
        /\ lastfmState.kind = "Connected" => Cardinality(LastFMEntries) = 1

\* Two session events arrived, for the first and for the second token: the
\* list holds the one service of the second session.
ServiceReplacedBySecondSession ==
    /\ app.configured
    /\ tasks.sessions = 2
    /\ lastfmState = Connected(2)
    /\ mmbsList = <<[key |-> "lastfm", value |-> 2]>>

\* C34: a broadcast service handles the MMBS events in the order they were
\* emitted and one at a time: the handlers start in the order of the events,
\* and no handler starts while another one is suspended in a request.
HandledInOrderOneAtATime ==
    /\ \A i \in 1..Len(handled.order) : handled.order[i] = i
    /\ ~handled.overlap

\* The handled commands that are answered with an event.
Answered == SelectSeq(data_log.handled, LAMBDA c : c.kind # "EvictQueueCache")

\* The event is an answer to the command.
Answers(event, command) ==
    \/ /\ command.kind = "DecodeImage"
       /\ event.kind \in {"ImageDecoded", "DecodeError"}
       /\ event.image_type = command.image_type
    \/ /\ command.kind = "ReadQueueMetadata"
       /\ event.kind = "MetadataRead"

IsPrefix(a, b) == Len(a) <= Len(b) /\ SubSeq(b, 1, Len(a)) = a

AnsweredOrPanicked ==
    /\ IsPrefix(data_log.handled, data_log.sent)
    /\ Len(events_tx) = Len(Answered) - (IF thread = "panicked" THEN 1 ELSE 0)
    /\ \A i \in 1..Len(events_tx) : Answers(events_tx[i], Answered[i])
    /\ thread = "panicked" =>
           /\ ~channel_ends.events
           /\ data_log.handled[Len(data_log.handled)].kind # "EvictQueueCache"
    /\ thread = "ended" => ~channel_ends.commands /\ commands_rx = <<>>

IsLastComponent(name, path) ==
    /\ \A i \in 1..Len(name) : name[i] # MAIN_SEPARATOR_STR
    /\ Len(name) <= Len(path)
    /\ SubSeq(path, Len(path) - Len(name) + 1, Len(path)) = name
    /\ Len(name) < Len(path) => path[Len(path) - Len(name)] = MAIN_SEPARATOR_STR

\* C36: read_metadata_for_queue returns one item for every path whose file
\* opens and none for the others, in the order of the paths, each with its
\* path; when the provider fails to open the file, start playback or read
\* the metadata, the item is the generic one: its name is the last component
\* of the path, nothing else is set and it has no album art.
OneItemPerOpenedPath ==
    LET r == data_log.read
        opened == {i \in 1..Len(r.paths) : r.files[i].stage # "missing"}
        nth(k) == CHOOSE i \in opened : Cardinality({j \in opened : j < i}) = k - 1
    IN  /\ Len(r.items) = Cardinality(opened)
        /\ \A k \in 1..Cardinality(opened) :
               /\ r.items[k].file_path = r.paths[nth(k)]
               /\ r.files[nth(k)].stage # "ok" =>
                      /\ r.items[k].album_art = None
                      /\ r.items[k].metadata.artist = None
                      /\ Len(r.items[k].metadata.name) = 1
                      /\ IsLastComponent(r.items[k].metadata.name[1],
                                         r.paths[nth(k)])

\* Two paths were read: the first file could not be opened, the second one,
\* in a directory, could not be played, and its generic item is the result.
GenericItemAfterMissingFile ==
    /\ data_log.read.paths = <<<<"a">>, <<"d", "/", "e", "/", "b">>>>
    /\ data_log.read.files[1].stage = "missing"
    /\ data_log.read.files[2].stage = "playback_err"
    /\ Len(data_log.read.items) = 1
    /\ data_log.read.items[1].metadata.name = Some(<<"b">>)

\* C37: EvictQueueCache removes exactly the cached images that nothing
\* outside the cache refers to, and leaves the other entries as they are.
EvictRemovesOnlyUnreferenced ==
    [][(/\ Len(data_log'.handled) > Len(data_log.handled)
        /\ Head(commands_rx).kind = "EvictQueueCache")
           => image_cache' = {key \in image_cache : refs[key] > 0}]_vars

=============================================================================
